---- MODULE Spec2Model ----
(***************************************************************************)
(* Model of the appstream crate's Collection and Screenshot modules:       *)
(* decoding of collection / screenshot documents (serde + quick_xml),      *)
(* Collection::from_path, from_gzipped and find_by_id, the media           *)
(* descriptors' encoding, the builders, the localized-value merge and the  *)
(* open enumerations.                                                      *)
(***************************************************************************)
EXTENDS Integers, Sequences, FiniteSets, TLC

VARIABLES
    file,       \* the file a Collection is loaded from (environment)
    called,     \* which loader produced result: "none", "from_path", "from_gzipped"
    result,     \* Option<Result<Collection>>: what the loader returned
    found,      \* Option<[id, comps]>: the last find_by_id call and its answer
    sdoc,       \* the document under decode: a collection or screenshot element
    decoded,    \* Option<Result<model>>: what quick_xml::de::from_str returned for sdoc
    builder,    \* Option<builder state>: the CollectionBuilder / ScreenshotBuilder in use
    calls,      \* the builder calls made so far, in order
    built,      \* Option<model>: what build() returned
    encoded,    \* Option<element>: what the serializer wrote for built
    redecoded,  \* Option<Result<Screenshot>>: encoded read back
    elems,      \* the same-named localized elements still to merge
    merged,     \* the merge accumulator of the localized-value deserializer
    field,      \* the open-enum field under decode
    token,      \* the token found in the document for field
    variant,    \* Option<enum value>: the decoded token
    written     \* Option<token>: the enum value written back

collVars == <<file, called, result, found>>
shotVars == <<sdoc, decoded, builder, calls, built, encoded, redecoded>>
mergeVars == <<elems, merged>>
enumVars == <<field, token, variant, written>>
vars == <<file, called, result, found, sdoc, decoded, builder, calls, built,
          encoded, redecoded, elems, merged, field, token, variant, written>>

-----------------------------------------------------------------------------
(* Bounds of the model *)

MaxComponents == 2   \* component children of a collection document
MaxCaptions == 2     \* caption elements of a screenshot document
MaxMedia == 1        \* image elements, and video elements, of a screenshot document
MaxCalls == 2        \* setter calls on a free-running ScreenshotBuilder
MaxElems == 3        \* same-named elements of one localized field

-----------------------------------------------------------------------------
(* Option<T> and Result<T, E> *)

None == <<>>
Some(x) == <<x>>
Unwrap(o) == o[1]

Ok(v) == [ok |-> TRUE, val |-> <<v>>, err |-> ""]
Err(e) == [ok |-> FALSE, val |-> <<>>, err |-> e]

RECURSIVE SeqsUpTo(_, _)
SeqsUpTo(S, n) ==
    IF n = 0 THEN {<<>>}
    ELSE LET shorter == SeqsUpTo(S, n - 1)
         IN  shorter \cup {Append(s, x) : s \in shorter, x \in S}

-----------------------------------------------------------------------------
(* Localized values: a default plus per-locale overrides *)

EmptyLocales == [t \in {} |-> ""]

\* TranslatableString::with_default
with_default(text) == [default |-> text, locales |-> EmptyLocales]

PutLocale(m, tag, text) ==
    [t \in (DOMAIN m) \cup {tag} |-> IF t = tag THEN text ELSE m[t]]

\* TranslatableString::and_locale: adds or replaces the entry for tag.
and_locale(lt, tag, text) ==
    [lt EXCEPT !.locales = PutLocale(lt.locales, tag, text)]

\* The deserializer's accumulator before any element is seen.
EmptyMerge == [default |-> None, locales |-> EmptyLocales]

\* A merge in which every element, tagged or not, also replaces the default.
MergeStepIgnoringLang(acc, e) ==
    IF e.lang = None
    THEN [acc EXCEPT !.default = Some(e.text)]
    ELSE [acc EXCEPT !.default = Some(e.text),
                     !.locales = PutLocale(acc.locales, Unwrap(e.lang), e.text)]

\* One same-named element: untagged supplies the default, tagged supplies
\* (or overwrites) its locale's override.
MergeStep(acc, e) ==
    IF e.lang = None
    THEN [acc EXCEPT !.default = Some(e.text)]
    ELSE [acc EXCEPT !.locales = PutLocale(acc.locales, Unwrap(e.lang), e.text)]

RECURSIVE MergeAll(_, _)
MergeAll(acc, es) ==
    IF es = <<>> THEN acc ELSE MergeAll(MergeStep(acc, Head(es)), Tail(es))

\* The merged value; the default is mandatory.
MergeFinish(acc) ==
    IF acc.default = None THEN Err("missing default value")
    ELSE Ok([default |-> Unwrap(acc.default), locales |-> acc.locales])

\* de::some_translatable_deserialize
some_translatable_deserialize(es) ==
    LET m == MergeFinish(MergeAll(EmptyMerge, es))
    IN  IF m.ok THEN Ok(Some(Unwrap(m.val))) ELSE m

-----------------------------------------------------------------------------
(* Collection: src/src/collection.rs *)

\* AppId::try_from: the identifier grammar (no normalization; syntactic only).
ValidIds == {"org.a.App", "org.a.app", "a-release"}

AppIdTryFrom(text) ==
    IF text \in ValidIds THEN Ok(text) ELSE Err("ValidationError")

\* One component child: identifier and default name are required.
DecodeComponent(c) ==
    IF c.id = None THEN Err("missing field id")
    ELSE IF c.name = None THEN Err("missing field name")
    ELSE LET id == AppIdTryFrom(Unwrap(c.id))
         IN  IF ~id.ok THEN id
             ELSE Ok([id |-> Unwrap(id.val),
                      name |-> with_default(Unwrap(c.name))])

\* A best-effort sequence that drops the children that fail to decode.
RECURSIVE DecodeComponentsBestEffort(_)
DecodeComponentsBestEffort(cs) ==
    IF cs = <<>> THEN Ok(<<>>)
    ELSE LET head == DecodeComponent(Head(cs))
             rest == DecodeComponentsBestEffort(Tail(cs))
         IN  IF ~head.ok THEN rest
             ELSE Ok(<<Unwrap(head.val)>> \o Unwrap(rest.val))

\* Vec<Component> from the component children, in document order; the first
\* child that fails to decode fails the whole sequence.
RECURSIVE DecodeComponents(_)
DecodeComponents(cs) ==
    IF cs = <<>> THEN Ok(<<>>)
    ELSE LET head == DecodeComponent(Head(cs))
         IN  IF ~head.ok THEN head
             ELSE LET rest == DecodeComponents(Tail(cs))
                  IN  IF ~rest.ok THEN rest
                      ELSE Ok(<<Unwrap(head.val)>> \o Unwrap(rest.val))

\* A Collection whose version falls back to String::default().
DecodeCollectionVersionDefault(root) ==
    LET comps == DecodeComponents(root.components)
    IN  IF ~comps.ok THEN comps
        ELSE Ok([version |-> IF root.version = None THEN "" ELSE Unwrap(root.version),
                 origin |-> root.origin,
                 components |-> Unwrap(comps.val)])

\* #[derive(Deserialize)] struct Collection
DecodeCollection(root) ==
    IF root.version = None THEN Err("missing field version")
    ELSE LET comps == DecodeComponents(root.components)
         IN  IF ~comps.ok THEN comps
             ELSE Ok([version |-> Unwrap(root.version),
                      origin |-> root.origin,
                      components |-> Unwrap(comps.val)])

\* quick_xml::de::from_str::<Collection>
CollectionFromStr(text) ==
    IF ~text.wellformed THEN Err("syntax") ELSE DecodeCollection(text.root)

\* Collection::from_path
FromPath(f) ==
    IF f.format # "xml" THEN Err("io")
    ELSE CollectionFromStr(f.text)

\* Collection::from_gzipped
FromGzipped(f) ==
    IF f.format # "gzip" THEN Err("io")
    ELSE CollectionFromStr(f.text)

\* A lookup that stops at the first match.
FindByIdFirstOnly(self, id) ==
    LET all == SelectSeq(self.components, LAMBDA c : c.id = id)
    IN  IF all = <<>> THEN <<>> ELSE <<Head(all)>>

\* Collection::find_by_id
FindById(self, id) ==
    SelectSeq(self.components, LAMBDA c : c.id = id)

(* Inputs: the files a caller may point the loaders at *)
ComponentDocs ==
    {[id |-> Some(i), name |-> Some(n)] :
        i \in {"org.a.App", "org.a.app", "org a"}, n \in {"App", "Lib"}}
    \cup {[id |-> Some("org.a.App"), name |-> None],
          [id |-> None, name |-> Some("App")]}

CollectionDocs ==
    {[version |-> v, origin |-> o, components |-> cs] :
        v \in {None, Some("0.8")},
        o \in {None, Some("fedora")},
        cs \in SeqsUpTo(ComponentDocs, MaxComponents)}

Texts == {[wellformed |-> w, root |-> r] : w \in BOOLEAN, r \in CollectionDocs}

Files == {[format |-> f, text |-> t] : f \in {"missing", "xml", "gzip"}, t \in Texts}

NoFile == [format |-> "missing",
           text |-> [wellformed |-> FALSE,
                     root |-> [version |-> None, origin |-> None, components |-> <<>>]]]

CollIdle == file = NoFile /\ called = "none" /\ result = None /\ found = None

(* Operations *)
from_path ==
    /\ called = "none"
    /\ called' = "from_path"
    /\ result' = Some(FromPath(file))
    /\ UNCHANGED <<file, found, shotVars, mergeVars, enumVars>>

from_gzipped ==
    /\ called = "none"
    /\ called' = "from_gzipped"
    /\ result' = Some(FromGzipped(file))
    /\ UNCHANGED <<file, found, shotVars, mergeVars, enumVars>>

find_by_id ==
    /\ result # None
    /\ Unwrap(result).ok
    /\ \E id \in ValidIds :
          found' = Some([id |-> id,
                         comps |-> FindById(Unwrap(Unwrap(result).val), id)])
    /\ UNCHANGED <<file, called, result, shotVars, mergeVars, enumVars>>

-----------------------------------------------------------------------------
(* Attribute and text conversions used by the media descriptors *)

DigitChars == <<"0", "1", "2", "3", "4", "5", "6", "7", "8", "9">>
IsDigit(c) == \E i \in 1..Len(DigitChars) : DigitChars[i] = c
DigitOf(c) == (CHOOSE i \in 1..Len(DigitChars) : DigitChars[i] = c) - 1

\* str::parse::<u32> of an attribute's text (a sequence of characters): the
\* decimal value, an error for the empty text and for any non-digit.  The
\* texts of the model stay far below u32::MAX.
RECURSIVE DigitsValue(_, _)
DigitsValue(t, acc) ==
    IF t = <<>> THEN acc
    ELSE DigitsValue(Tail(t), acc * Len(DigitChars) + DigitOf(Head(t)))

ParseU32(t) ==
    IF t = <<>> \/ \E i \in 1..Len(t) : ~IsDigit(t[i])
    THEN Err("invalid digit")
    ELSE Ok(DigitsValue(t, 0))

\* u32's Display, as the serializer writes it: no leading zeros.
RECURSIVE FormatU32(_)
FormatU32(n) ==
    IF n < Len(DigitChars) THEN <<DigitChars[n + 1]>>
    ELSE Append(FormatU32(n \div Len(DigitChars)), DigitChars[(n % Len(DigitChars)) + 1])

\* Option<u32> attribute: absent is None, present must parse.
DecodeOptU32(attr) ==
    IF attr = None THEN Ok(None)
    ELSE LET p == ParseU32(Unwrap(attr))
         IN  IF p.ok THEN Ok(Some(Unwrap(p.val))) ELSE p

EncodeOptU32(o) == IF o = None THEN None ELSE Some(FormatU32(Unwrap(o)))

\* Url::parse: rejects text that is no absolute URL and normalizes the rest
\* (an empty path becomes "/"); Url's Serialize writes the normalized text.
UrlParse(text) ==
    CASE text = "https://a.org/m.png" -> Ok("https://a.org/m.png")
      [] text = "https://a.org/v.mkv" -> Ok("https://a.org/v.mkv")
      [] text = "https://a.org" -> Ok("https://a.org/")
      [] text = "https://a.org/" -> Ok("https://a.org/")
      [] OTHER -> Err("relative URL without a base")

UrlSerialize(url) == url

-----------------------------------------------------------------------------
(* Open enumerations: fixed variants plus a catch-all carrying the token *)

EnumFields == {"category", "component_kind", "icon", "image_kind",
               "project_url", "provide"}

\* <<token, variant>> pairs of each field's fixed variants.
FixedVariants(f) ==
    CASE f = "category" ->
            {<<"Education", "Education">>, <<"Literature", "Literature">>,
             <<"Network", "Network">>}
      [] f = "component_kind" ->
            {<<"desktop-application", "DesktopApplication">>,
             <<"web-application", "WebApplication">>, <<"font", "Font">>}
      [] f = "icon" ->
            {<<"stock", "Stock">>, <<"cached", "Cached">>, <<"remote", "Remote">>}
      [] f = "image_kind" ->
            {<<"source", "Source">>, <<"thumbnail", "Thumbnail">>}
      [] f = "project_url" ->
            {<<"homepage", "Homepage">>, <<"bugtracker", "Bugtracker">>}
      [] f = "provide" ->
            {<<"library", "Library">>, <<"binary", "Binary">>, <<"font", "Font">>}

\* Decoding never fails: a token matching no fixed variant is kept verbatim.
EnumDecode(f, tok) ==
    IF \E p \in FixedVariants(f) : p[1] = tok
    THEN [variant |-> (CHOOSE p \in FixedVariants(f) : p[1] = tok)[2], token |-> ""]
    ELSE [variant |-> "Unknown", token |-> tok]

\* An encoder that writes the catch-all variant's name instead of its token.
EnumEncodeVariantName(f, v) ==
    IF v.variant = "Unknown" THEN "unknown"
    ELSE (CHOOSE p \in FixedVariants(f) : p[2] = v.variant)[1]

EnumEncode(f, v) ==
    IF v.variant = "Unknown" THEN v.token
    ELSE (CHOOSE p \in FixedVariants(f) : p[2] = v.variant)[1]

ImageKindSource == [variant |-> "Source", token |-> ""]
ImageKindThumbnail == [variant |-> "Thumbnail", token |-> ""]

-----------------------------------------------------------------------------
(* Media descriptors: src/src/screenshot.rs *)

\* A Default impl that leaves is_default at bool's default.
ScreenshotDefaultDerived ==
    [is_default |-> FALSE, caption |-> None, images |-> <<>>, videos |-> <<>>]

\* impl Default for Screenshot
ScreenshotDefault ==
    [is_default |-> TRUE, caption |-> None, images |-> <<>>, videos |-> <<>>]

\* A field default taken from Screenshot::default() instead of bool's.
BoolDefaultFromStruct == TRUE

\* #[serde(default)] on a bool field: bool::default() when the attribute is absent.
BoolDefault == FALSE

\* de::screenshot_type_deserialize: the type token as a boolean.
screenshot_type_deserialize(tok) == tok = "default"

\* An Image decoder that never looks at the type attribute's value.
DecodeImageKindIgnored(e) ==
    IF e.type = None THEN Err("missing field type")
    ELSE LET w == DecodeOptU32(e.width)
             h == DecodeOptU32(e.height)
             u == UrlParse(e.value)
         IN  IF ~w.ok THEN w
             ELSE IF ~h.ok THEN h
             ELSE IF ~u.ok THEN u
             ELSE Ok([kind |-> [variant |-> "Source", token |-> ""],
                      width |-> Unwrap(w.val),
                      height |-> Unwrap(h.val),
                      url |-> Unwrap(u.val)])

\* #[derive(Deserialize)] struct Image: kind has no serde default, so the type
\* attribute is required; width and height are optional.
DecodeImage(e) ==
    IF e.type = None THEN Err("missing field type")
    ELSE LET w == DecodeOptU32(e.width)
             h == DecodeOptU32(e.height)
             u == UrlParse(e.value)
         IN  IF ~w.ok THEN w
             ELSE IF ~h.ok THEN h
             ELSE IF ~u.ok THEN u
             ELSE Ok([kind |-> EnumDecode("image_kind", Unwrap(e.type)),
                      width |-> Unwrap(w.val),
                      height |-> Unwrap(h.val),
                      url |-> Unwrap(u.val)])

\* #[derive(Deserialize)] struct Video: only the URL is required.
DecodeVideo(e) ==
    LET w == DecodeOptU32(e.width)
        h == DecodeOptU32(e.height)
        u == UrlParse(e.value)
    IN  IF ~w.ok THEN w
        ELSE IF ~h.ok THEN h
        ELSE IF ~u.ok THEN u
        ELSE Ok([width |-> Unwrap(w.val),
                 height |-> Unwrap(h.val),
                 codec |-> e.codec,
                 container |-> e.container,
                 url |-> Unwrap(u.val)])

RECURSIVE DecodeImages(_)
DecodeImages(es) ==
    IF es = <<>> THEN Ok(<<>>)
    ELSE LET head == DecodeImage(Head(es))
         IN  IF ~head.ok THEN head
             ELSE LET rest == DecodeImages(Tail(es))
                  IN  IF ~rest.ok THEN rest
                      ELSE Ok(<<Unwrap(head.val)>> \o Unwrap(rest.val))

RECURSIVE DecodeVideos(_)
DecodeVideos(es) ==
    IF es = <<>> THEN Ok(<<>>)
    ELSE LET head == DecodeVideo(Head(es))
         IN  IF ~head.ok THEN head
             ELSE LET rest == DecodeVideos(Tail(es))
                  IN  IF ~rest.ok THEN rest
                      ELSE Ok(<<Unwrap(head.val)>> \o Unwrap(rest.val))

\* The type attribute of a screenshot element as is_default.
DecodeIsDefault(attr) ==
    IF attr = None THEN BoolDefault
    ELSE screenshot_type_deserialize(Unwrap(attr))

\* The caption children: none is Option's default, otherwise the merge.
DecodeCaption(es) ==
    IF es = <<>> THEN Ok(None) ELSE some_translatable_deserialize(es)

\* #[derive(Deserialize)] struct Screenshot
DecodeScreenshot(e) ==
    LET cap == DecodeCaption(e.captions)
        imgs == DecodeImages(e.images)
        vids == DecodeVideos(e.videos)
    IN  IF ~cap.ok THEN cap
        ELSE IF ~imgs.ok THEN imgs
        ELSE IF ~vids.ok THEN vids
        ELSE Ok([is_default |-> DecodeIsDefault(e.type),
                 caption |-> Unwrap(cap.val),
                 images |-> Unwrap(imgs.val),
                 videos |-> Unwrap(vids.val)])

\* bool's Serialize as the XML writer renders it.
BoolToText(b) == IF b THEN "true" ELSE "false"

\* #[derive(Serialize)] struct Image
EncodeImage(img) ==
    [type |-> Some(EnumEncode("image_kind", img.kind)),
     width |-> EncodeOptU32(img.width),
     height |-> EncodeOptU32(img.height),
     value |-> UrlSerialize(img.url)]

\* #[derive(Serialize)] struct Video
EncodeVideo(v) ==
    [width |-> EncodeOptU32(v.width),
     height |-> EncodeOptU32(v.height),
     codec |-> v.codec,
     container |-> v.container,
     value |-> UrlSerialize(v.url)]

\* The locale tags in the order the map keeps them.
TagOrder == <<"de", "fr", "it">>

\* TranslatableString's Serialize: the default, then one element per locale.
EncodeTranslatable(lt) ==
    <<[lang |-> None, text |-> lt.default]>>
    \o [i \in 1..Len(SelectSeq(TagOrder, LAMBDA t : t \in DOMAIN lt.locales)) |->
          LET tag == SelectSeq(TagOrder, LAMBDA t : t \in DOMAIN lt.locales)[i]
          IN  [lang |-> Some(tag), text |-> lt.locales[tag]]]

\* #[derive(Serialize)] struct Screenshot: is_default is written under type by
\* bool's own Serialize; absent caption and empty lists are skipped.
EncodeScreenshot(s) ==
    [type |-> Some(BoolToText(s.is_default)),
     captions |-> IF s.caption = None THEN <<>>
                  ELSE EncodeTranslatable(Unwrap(s.caption)),
     images |-> [i \in 1..Len(s.images) |-> EncodeImage(s.images[i])],
     videos |-> [i \in 1..Len(s.videos) |-> EncodeVideo(s.videos[i])]]

-----------------------------------------------------------------------------
(* Builders *)

ImageBuilder_new(url) ==
    [kind |-> ImageKindSource, width |-> None, height |-> None, url |-> url]
ImageBuilder_kind(b, k) == [b EXCEPT !.kind = k]
ImageBuilder_width(b, w) == [b EXCEPT !.width = Some(w)]
ImageBuilder_height(b, h) == [b EXCEPT !.height = Some(h)]

VideoBuilder_new(url) ==
    [width |-> None, height |-> None, codec |-> None, container |-> None, url |-> url]
VideoBuilder_width(b, w) == [b EXCEPT !.width = Some(w)]
VideoBuilder_height(b, h) == [b EXCEPT !.height = Some(h)]
VideoBuilder_codec(b, c) == [b EXCEPT !.codec = Some(c)]
VideoBuilder_container(b, c) == [b EXCEPT !.container = Some(c)]

ScreenshotBuilder_new == ScreenshotDefault
ScreenshotBuilder_set_default(b, flag) == [b EXCEPT !.is_default = flag]
ScreenshotBuilder_caption(b, c) == [b EXCEPT !.caption = Some(c)]
ScreenshotBuilder_image(b, img) == [b EXCEPT !.images = Append(@, img)]
ScreenshotBuilder_video(b, v) == [b EXCEPT !.videos = Append(@, v)]

ComponentBuilder_new(id, name) == [id |-> id, name |-> name]

CollectionBuilder_new(version) ==
    [version |-> version, origin |-> None, components |-> <<>>]
CollectionBuilder_origin(b, o) == [b EXCEPT !.origin = Some(o)]
CollectionBuilder_component(b, c) == [b EXCEPT !.components = Append(@, c)]

-----------------------------------------------------------------------------
(* Documents and builder calls of the decode / build / encode runs *)

CaptionElems ==
    {[lang |-> None, text |-> "Hi"],
     [lang |-> Some("de"), text |-> "Hallo"],
     [lang |-> Some("fr"), text |-> "Salut"]}

ImageElems ==
    {[type |-> Some("source"), width |-> None, height |-> None,
      value |-> "https://a.org/m.png"],
     [type |-> Some("thumbnail"), width |-> Some(<<"7", "5", "2">>),
      height |-> Some(<<"4", "2", "3">>), value |-> "https://a.org/m.png"],
     [type |-> None, width |-> None, height |-> None,
      value |-> "https://a.org/m.png"],
     [type |-> Some("large"), width |-> Some(<<"0", "8">>), height |-> None,
      value |-> "https://a.org"]}

VideoElems ==
    {[width |-> Some(<<"1", "6", "0", "0">>), height |-> Some(<<"9", "0", "0">>),
      codec |-> Some("av1"), container |-> None, value |-> "https://a.org/v.mkv"],
     [width |-> Some(<<"9", "x">>), height |-> None,
      codec |-> None, container |-> Some("matroska"), value |-> "https://a.org/v.mkv"]}

ScreenshotDocs ==
    {[type |-> t, captions |-> cs, images |-> is, videos |-> vs] :
        t \in {None, Some("default"), Some("extra")},
        cs \in SeqsUpTo(CaptionElems, MaxCaptions),
        is \in SeqsUpTo(ImageElems, MaxMedia),
        vs \in SeqsUpTo(VideoElems, MaxMedia)}

EmptyShotDoc == [type |-> None, captions |-> <<>>, images |-> <<>>, videos |-> <<>>]
EmptyCollDoc == [version |-> None, origin |-> None, components |-> <<>>]

\* A run either decodes a document and rebuilds it with the builders, as the
\* tests do, or drives a ScreenshotBuilder by hand (kind "none").
Documents ==
    {[kind |-> "screenshot", shot |-> d, coll |-> EmptyCollDoc] : d \in ScreenshotDocs}
    \cup {[kind |-> "collection", shot |-> EmptyShotDoc, coll |-> d] : d \in CollectionDocs}
    \cup {[kind |-> "none", shot |-> EmptyShotDoc, coll |-> EmptyCollDoc]}

NoCall == [op |-> "", flag |-> FALSE, text |-> None, cap |-> None,
           img |-> None, vid |-> None, comp |-> None]
SetDefaultCall(b) == [NoCall EXCEPT !.op = "set_default", !.flag = b]
CaptionCall(c) == [NoCall EXCEPT !.op = "caption", !.cap = Some(c)]
ImageCall(i) == [NoCall EXCEPT !.op = "image", !.img = Some(i)]
VideoCall(v) == [NoCall EXCEPT !.op = "video", !.vid = Some(v)]
OriginCall(o) == [NoCall EXCEPT !.op = "origin", !.text = Some(o)]
ComponentCall(c) == [NoCall EXCEPT !.op = "component", !.comp = Some(c)]

(* The builder calls the tests write for a document's content *)

RECURSIVE AndLocales(_, _)
AndLocales(lt, tagged) ==
    IF tagged = <<>> THEN lt
    ELSE AndLocales(and_locale(lt, Unwrap(Head(tagged).lang), Head(tagged).text),
                    Tail(tagged))

\* tests::name: with_default(untagged text), and_locale per tagged element.
CaptionFor(es) ==
    LET untagged == SelectSeq(es, LAMBDA e : e.lang = None)
        tagged == SelectSeq(es, LAMBDA e : e.lang # None)
    IN  AndLocales(with_default(untagged[Len(untagged)].text), tagged)

\* tests::name: ImageBuilder::new(Url::parse(..)), then width / height / kind
\* for the attributes present; type='source' is the builder's own kind.
ImageFor(e) ==
    LET b0 == ImageBuilder_new(Unwrap(UrlParse(e.value).val))
        b1 == IF e.width = None THEN b0
              ELSE ImageBuilder_width(b0, Unwrap(ParseU32(Unwrap(e.width)).val))
        b2 == IF e.height = None THEN b1
              ELSE ImageBuilder_height(b1, Unwrap(ParseU32(Unwrap(e.height)).val))
    IN  IF e.type = None \/ e.type = Some("source") THEN b2
        ELSE ImageBuilder_kind(b2, EnumDecode("image_kind", Unwrap(e.type)))

\* tests::screenshot_video: VideoBuilder::new(url), then the attributes present.
VideoFor(e) ==
    LET b0 == VideoBuilder_new(Unwrap(UrlParse(e.value).val))
        b1 == IF e.width = None THEN b0
              ELSE VideoBuilder_width(b0, Unwrap(ParseU32(Unwrap(e.width)).val))
        b2 == IF e.height = None THEN b1
              ELSE VideoBuilder_height(b1, Unwrap(ParseU32(Unwrap(e.height)).val))
        b3 == IF e.codec = None THEN b2 ELSE VideoBuilder_codec(b2, Unwrap(e.codec))
    IN  IF e.container = None THEN b3
        ELSE VideoBuilder_container(b3, Unwrap(e.container))

\* tests::default_screenshot, tests::name (type='default': no set_default
\* call) and tests::screenshot_video (no type attribute: set_default(false)).
ScreenshotCalls(d) ==
    (IF d.type = Some("default") THEN <<>> ELSE <<SetDefaultCall(FALSE)>>)
    \o (IF d.captions = <<>> THEN <<>> ELSE <<CaptionCall(CaptionFor(d.captions))>>)
    \o [i \in 1..Len(d.images) |-> ImageCall(ImageFor(d.images[i]))]
    \o [i \in 1..Len(d.videos) |-> VideoCall(VideoFor(d.videos[i]))]

\* tests::generic_collection: one component call per component child, each
\* given a validated AppId and the default name.
CollectionCalls(d) ==
    (IF d.origin = None THEN <<>> ELSE <<OriginCall(Unwrap(d.origin))>>)
    \o [i \in 1..Len(d.components) |->
          ComponentCall(ComponentBuilder_new(
              Unwrap(AppIdTryFrom(Unwrap(d.components[i].id)).val),
              with_default(Unwrap(d.components[i].name))))]

(* Values a caller hands to a ScreenshotBuilder driven by hand *)
FreeImages ==
    {ImageBuilder_new("https://a.org/m.png"),
     ImageBuilder_height(ImageBuilder_width(
         ImageBuilder_kind(ImageBuilder_new("https://a.org/"), ImageKindThumbnail),
         752), 423)}

FreeVideos ==
    {VideoBuilder_codec(VideoBuilder_width(VideoBuilder_new("https://a.org/v.mkv"),
                                           1600), "av1")}

FreeCaptions == {and_locale(with_default("Hi"), "de", "Hallo")}

FreeCalls ==
    {SetDefaultCall(b) : b \in BOOLEAN}
    \cup {CaptionCall(c) : c \in FreeCaptions}
    \cup {ImageCall(i) : i \in FreeImages}
    \cup {VideoCall(v) : v \in FreeVideos}

-----------------------------------------------------------------------------
(* Decode, build and encode runs *)

NoDocument == [kind |-> "none", shot |-> EmptyShotDoc, coll |-> EmptyCollDoc]

ShotIdle ==
    /\ sdoc = NoDocument /\ decoded = None /\ builder = None /\ calls = <<>>
    /\ built = None /\ encoded = None /\ redecoded = None

DecodedOk == decoded # None /\ Unwrap(decoded).ok

\* The calls still to make: the document's, or any while the bound allows.
Script ==
    IF sdoc.kind = "screenshot" THEN ScreenshotCalls(sdoc.shot)
    ELSE CollectionCalls(sdoc.coll)

NextCalls ==
    IF sdoc.kind = "none"
    THEN IF Len(calls) < MaxCalls THEN FreeCalls ELSE {}
    ELSE IF Len(calls) < Len(Script) THEN {Script[Len(calls) + 1]} ELSE {}

ReadyToBuild == sdoc.kind = "none" \/ Len(calls) = Len(Script)

\* quick_xml::de::from_str of the document
Deserialize ==
    /\ sdoc.kind # "none"
    /\ decoded = None
    /\ decoded' = Some(IF sdoc.kind = "screenshot"
                       THEN DecodeScreenshot(sdoc.shot)
                       ELSE DecodeCollection(sdoc.coll))
    /\ UNCHANGED <<sdoc, builder, calls, built, encoded, redecoded,
                   collVars, mergeVars, enumVars>>

ScreenshotBuilderNew ==
    /\ sdoc.kind = "none" \/ (sdoc.kind = "screenshot" /\ DecodedOk)
    /\ builder = None /\ built = None
    /\ builder' = Some(ScreenshotBuilder_new)
    /\ UNCHANGED <<sdoc, decoded, calls, built, encoded, redecoded,
                   collVars, mergeVars, enumVars>>

ScreenshotBuilderSetDefault ==
    /\ builder # None /\ sdoc.kind # "collection"
    /\ \E c \in NextCalls :
          /\ c.op = "set_default"
          /\ builder' = Some(ScreenshotBuilder_set_default(Unwrap(builder), c.flag))
          /\ calls' = Append(calls, c)
    /\ UNCHANGED <<sdoc, decoded, built, encoded, redecoded,
                   collVars, mergeVars, enumVars>>

ScreenshotBuilderCaption ==
    /\ builder # None /\ sdoc.kind # "collection"
    /\ \E c \in NextCalls :
          /\ c.op = "caption"
          /\ builder' = Some(ScreenshotBuilder_caption(Unwrap(builder), Unwrap(c.cap)))
          /\ calls' = Append(calls, c)
    /\ UNCHANGED <<sdoc, decoded, built, encoded, redecoded,
                   collVars, mergeVars, enumVars>>

ScreenshotBuilderImage ==
    /\ builder # None /\ sdoc.kind # "collection"
    /\ \E c \in NextCalls :
          /\ c.op = "image"
          /\ builder' = Some(ScreenshotBuilder_image(Unwrap(builder), Unwrap(c.img)))
          /\ calls' = Append(calls, c)
    /\ UNCHANGED <<sdoc, decoded, built, encoded, redecoded,
                   collVars, mergeVars, enumVars>>

ScreenshotBuilderVideo ==
    /\ builder # None /\ sdoc.kind # "collection"
    /\ \E c \in NextCalls :
          /\ c.op = "video"
          /\ builder' = Some(ScreenshotBuilder_video(Unwrap(builder), Unwrap(c.vid)))
          /\ calls' = Append(calls, c)
    /\ UNCHANGED <<sdoc, decoded, built, encoded, redecoded,
                   collVars, mergeVars, enumVars>>

CollectionBuilderNew ==
    /\ sdoc.kind = "collection" /\ DecodedOk
    /\ builder = None /\ built = None
    /\ builder' = Some(CollectionBuilder_new(Unwrap(sdoc.coll.version)))
    /\ UNCHANGED <<sdoc, decoded, calls, built, encoded, redecoded,
                   collVars, mergeVars, enumVars>>

CollectionBuilderOrigin ==
    /\ builder # None /\ sdoc.kind = "collection"
    /\ \E c \in NextCalls :
          /\ c.op = "origin"
          /\ builder' = Some(CollectionBuilder_origin(Unwrap(builder), Unwrap(c.text)))
          /\ calls' = Append(calls, c)
    /\ UNCHANGED <<sdoc, decoded, built, encoded, redecoded,
                   collVars, mergeVars, enumVars>>

CollectionBuilderComponent ==
    /\ builder # None /\ sdoc.kind = "collection"
    /\ \E c \in NextCalls :
          /\ c.op = "component"
          /\ builder' = Some(CollectionBuilder_component(Unwrap(builder), Unwrap(c.comp)))
          /\ calls' = Append(calls, c)
    /\ UNCHANGED <<sdoc, decoded, built, encoded, redecoded,
                   collVars, mergeVars, enumVars>>

\* build() consumes the builder and returns the entity.
Build ==
    /\ builder # None
    /\ ReadyToBuild
    /\ built' = builder
    /\ builder' = None
    /\ UNCHANGED <<sdoc, decoded, calls, encoded, redecoded,
                   collVars, mergeVars, enumVars>>

\* quick_xml::se::to_string of a Screenshot
Serialize ==
    /\ built # None /\ sdoc.kind # "collection"
    /\ encoded = None
    /\ encoded' = Some(EncodeScreenshot(Unwrap(built)))
    /\ UNCHANGED <<sdoc, decoded, builder, calls, built, redecoded,
                   collVars, mergeVars, enumVars>>

\* quick_xml::de::from_str of what Serialize wrote
DeserializeEncoded ==
    /\ encoded # None
    /\ redecoded = None
    /\ redecoded' = Some(DecodeScreenshot(Unwrap(encoded)))
    /\ UNCHANGED <<sdoc, decoded, builder, calls, built, encoded,
                   collVars, mergeVars, enumVars>>

-----------------------------------------------------------------------------
(* Merging same-named localized elements, one element per step *)

LocaleTags == {"de", "fr", "it"}
LocaleTexts == {"Hallo", "Salut"}

TaggedElems == {[lang |-> Some(t), text |-> x] : t \in LocaleTags, x \in LocaleTexts}
UntaggedElems == {[lang |-> None, text |-> "Hi"], [lang |-> None, text |-> "Hey"]}

\* The element lists a localized field may meet, up to the bound.
ElementLists == SeqsUpTo(TaggedElems \cup UntaggedElems, MaxElems)

MergeIdle == elems = [input |-> <<>>, next |-> 0] /\ merged = None

MergeStart ==
    /\ elems.next = 0 /\ merged = None /\ elems.input # <<>>
    /\ merged' = Some(EmptyMerge)
    /\ elems' = [elems EXCEPT !.next = 1]
    /\ UNCHANGED <<collVars, shotVars, enumVars>>

MergeElement ==
    /\ merged # None
    /\ elems.next \in 1..Len(elems.input)
    /\ merged' = Some(MergeStep(Unwrap(merged), elems.input[elems.next]))
    /\ elems' = [elems EXCEPT !.next = @ + 1]
    /\ UNCHANGED <<collVars, shotVars, enumVars>>

-----------------------------------------------------------------------------
(* Decoding and re-encoding one open-enumeration token *)

Tokens == {"Education", "education", "network", "desktop-application", "font",
           "Font", "stock", "source", "thumbnail", "Thumbnail", "homepage",
           "library", "x-vendor", "web browser", "", "Unknown"}

EnumIdle == field = "" /\ token = "" /\ variant = None /\ written = None

DecodeToken ==
    /\ field \in EnumFields /\ variant = None
    /\ variant' = Some(EnumDecode(field, token))
    /\ UNCHANGED <<field, token, written, collVars, shotVars, mergeVars>>

EncodeToken ==
    /\ variant # None /\ written = None
    /\ written' = Some(EnumEncode(field, Unwrap(variant)))
    /\ UNCHANGED <<field, token, variant, collVars, shotVars, mergeVars>>

-----------------------------------------------------------------------------
(* Specifications *)

\* Loading a collection file and looking components up.
Init ==
    /\ file \in Files /\ called = "none" /\ result = None /\ found = None
    /\ ShotIdle /\ MergeIdle /\ EnumIdle

Next == from_path \/ from_gzipped \/ find_by_id

Spec == Init /\ [][Next]_vars

\* Decoding a document, rebuilding it with the builders, encoding the result.
InitMedia ==
    /\ sdoc \in Documents /\ decoded = None /\ builder = None /\ calls = <<>>
    /\ built = None /\ encoded = None /\ redecoded = None
    /\ CollIdle /\ MergeIdle /\ EnumIdle

NextMedia ==
    \/ Deserialize
    \/ ScreenshotBuilderNew \/ ScreenshotBuilderSetDefault
    \/ ScreenshotBuilderCaption \/ ScreenshotBuilderImage \/ ScreenshotBuilderVideo
    \/ CollectionBuilderNew \/ CollectionBuilderOrigin \/ CollectionBuilderComponent
    \/ Build \/ Serialize \/ DeserializeEncoded

SpecMedia == InitMedia /\ [][NextMedia]_vars

\* The localized-value merge.
InitMerge ==
    /\ elems \in {[input |-> es, next |-> 0] : es \in ElementLists}
    /\ merged = None
    /\ CollIdle /\ ShotIdle /\ EnumIdle

NextMerge == MergeStart \/ MergeElement

SpecMerge == InitMerge /\ [][NextMerge]_vars

\* The open enumerations.
InitEnum ==
    /\ field \in EnumFields /\ token \in Tokens
    /\ variant = None /\ written = None
    /\ CollIdle /\ ShotIdle /\ MergeIdle

NextEnum == DecodeToken \/ EncodeToken

SpecEnum == InitEnum /\ [][NextEnum]_vars

-----------------------------------------------------------------------------
(* Properties of Collection loading and lookup (Spec) *)

\* The loader that ran could read the file as the format it expects.
LoaderRead ==
    \/ called = "from_path" /\ file.format = "xml"
    \/ called = "from_gzipped" /\ file.format = "gzip"

AllComponentsDecode ==
    \A i \in 1..Len(file.text.root.components) :
        DecodeComponent(file.text.root.components[i]).ok

\* C2: find_by_id(id) returns exactly the components whose identifier equals
\* id, compared exactly: every one of them, in the order of the collection's
\* component sequence, and nothing when none matches.
FindByIdReturnsAllMatchesInOrder ==
    found # None =>
        LET comps == Unwrap(Unwrap(result).val).components
            f == Unwrap(found)
            idx == {i \in 1..Len(comps) : comps[i].id = f.id}
        IN  /\ Len(f.comps) = Cardinality(idx)
            /\ \A i \in idx : f.comps[Cardinality({j \in idx : j <= i})] = comps[i]
            /\ (idx = {} => f.comps = <<>>)

\* C2 witness: a lookup that matched two different components sharing an id.
FindByIdMultiMatchReached ==
    /\ found # None
    /\ Len(Unwrap(found).comps) = 2
    /\ Unwrap(found).comps[1] # Unwrap(found).comps[2]

\* C7: a collection document without origin decodes with origin absent, one
\* without component children decodes with no components, neither being an
\* error; a collection document without version fails to decode.
CollectionOptionalAndRequiredFields ==
    (result # None /\ LoaderRead /\ file.text.wellformed) =>
        LET root == file.text.root
            r == Unwrap(result)
        IN  /\ (root.version = None => ~r.ok)
            /\ (root.version # None /\ AllComponentsDecode) =>
                  /\ r.ok
                  /\ (root.origin = None => Unwrap(r.val).origin = None)
                  /\ (root.components = <<>> => Unwrap(r.val).components = <<>>)

\* C7 witness: a document with a version and neither origin nor components
\* was loaded successfully.
CollectionWithoutOptionalsReached ==
    /\ result # None /\ Unwrap(result).ok
    /\ file.text.root.origin = None
    /\ file.text.root.components = <<>>

\* C8: a loader returns a Collection only when the file was read and the whole
\* document decoded, and then the Collection holds every component of the
\* document; on any failure it returns an error and no Collection at all.
DecodingIsAllOrNothing ==
    result # None =>
        LET root == file.text.root
            r == Unwrap(result)
            whole == /\ LoaderRead /\ file.text.wellformed
                     /\ root.version # None /\ AllComponentsDecode
        IN  /\ r.ok <=> whole
            /\ ~r.ok => (r.val = None /\ found = None)
            /\ r.ok =>
                  /\ Unwrap(r.val).version = Unwrap(root.version)
                  /\ Unwrap(r.val).origin = root.origin
                  /\ Len(Unwrap(r.val).components) = Len(root.components)
                  /\ \A i \in 1..Len(root.components) :
                        Ok(Unwrap(r.val).components[i]) = DecodeComponent(root.components[i])

\* C8 witness: a readable, well-formed document whose first component decodes
\* and whose second does not was loaded, and the loader returned an error.
PartialDocumentRejectedReached ==
    /\ result # None /\ ~Unwrap(result).ok
    /\ LoaderRead /\ file.text.wellformed /\ file.text.root.version # None
    /\ Len(file.text.root.components) = 2
    /\ DecodeComponent(file.text.root.components[1]).ok
    /\ ~DecodeComponent(file.text.root.components[2]).ok

-----------------------------------------------------------------------------
(* Properties of decoding, building and encoding (SpecMedia) *)

ShotDecoded == sdoc.kind = "screenshot" /\ decoded # None

\* C1: for every document that decodes successfully to a model M, the builder
\* call sequence that supplies the document's content in document order,
\* followed by build(), produces a model equal to M field for field.
BuilderDecodeEquivalence ==
    (sdoc.kind # "none" /\ built # None) =>
        /\ DecodedOk
        /\ Unwrap(built) = Unwrap(Unwrap(decoded).val)

\* C1 witness: a screenshot document with a caption, an image and a video was
\* decoded and rebuilt by set_default, caption, image and video calls.
RebuiltScreenshotReached ==
    /\ sdoc.kind = "screenshot" /\ built # None
    /\ sdoc.shot.type = None
    /\ Len(sdoc.shot.captions) = 2
    /\ Len(sdoc.shot.images) = 1 /\ Len(sdoc.shot.videos) = 1

\* C3 as stated: a screenshot element lacking the type attribute decodes with
\* is_default = true, one with an explicit non-default discriminator decodes
\* with is_default = false.
MissingTypeDecodesAsDefault ==
    (ShotDecoded /\ Unwrap(decoded).ok) =>
        LET s == Unwrap(Unwrap(decoded).val)
        IN  /\ (sdoc.shot.type = None => s.is_default = TRUE)
            /\ (sdoc.shot.type \notin {None, Some("default")} => s.is_default = FALSE)

\* C3 amended: a screenshot element lacking the type attribute decodes with
\* is_default = false, one with type='default' decodes with is_default = true,
\* one with an explicit non-default discriminator decodes with is_default = false.
MissingTypeDecodesAsNotDefault ==
    (ShotDecoded /\ Unwrap(decoded).ok) =>
        LET s == Unwrap(Unwrap(decoded).val)
        IN  /\ (sdoc.shot.type = None => s.is_default = FALSE)
            /\ (sdoc.shot.type = Some("default") => s.is_default = TRUE)
            /\ (sdoc.shot.type \notin {None, Some("default")} => s.is_default = FALSE)

\* C3 witness: a screenshot element without type attribute was decoded.
UntypedScreenshotDecodedReached ==
    /\ ShotDecoded /\ Unwrap(decoded).ok
    /\ sdoc.shot.type = None

\* C4: decoding an image element that has no type attribute succeeds and
\* yields an Image of kind source (the rest of the screenshot being decodable).
UntypedImageDecodesAsSource ==
    (/\ ShotDecoded
     /\ DecodeCaption(sdoc.shot.captions).ok
     /\ DecodeVideos(sdoc.shot.videos).ok
     /\ \E i \in 1..Len(sdoc.shot.images) : sdoc.shot.images[i].type = None
     /\ \A i \in 1..Len(sdoc.shot.images) :
           sdoc.shot.images[i].type # None => DecodeImage(sdoc.shot.images[i]).ok) =>
        /\ Unwrap(decoded).ok
        /\ \A i \in 1..Len(sdoc.shot.images) :
              sdoc.shot.images[i].type = None =>
                  Unwrap(Unwrap(decoded).val).images[i].kind = ImageKindSource

\* The image / video values and the caption of the setter calls made by hand.
CallsOf(op) == SelectSeq(calls, LAMBDA c : c.op = op)
ImagesAdded == [i \in 1..Len(CallsOf("image")) |-> Unwrap(CallsOf("image")[i].img)]
VideosAdded == [i \in 1..Len(CallsOf("video")) |-> Unwrap(CallsOf("video")[i].vid)]
CaptionSet ==
    IF CallsOf("caption") = <<>> THEN None
    ELSE CallsOf("caption")[Len(CallsOf("caption"))].cap

\* The <screenshot type='default'> element with the content of the calls.
DefaultTypedElementOfCalls ==
    [type |-> Some("default"),
     captions |-> IF CaptionSet = None THEN <<>>
                  ELSE EncodeTranslatable(Unwrap(CaptionSet)),
     images |-> [i \in 1..Len(ImagesAdded) |-> EncodeImage(ImagesAdded[i])],
     videos |-> [i \in 1..Len(VideosAdded) |-> EncodeVideo(VideosAdded[i])]]

\* C9: ScreenshotBuilder::new(), any caption / image / video calls without a
\* set_default call, then build() yields a Screenshot with is_default = true,
\* no caption unless one was set, the images and videos added in call order;
\* with no call at all it is Screenshot::default(); and it equals the decoding
\* of a <screenshot type='default'> element with the same content.
BuilderWithoutSetDefaultIsDefault ==
    (sdoc.kind = "none" /\ built # None /\ CallsOf("set_default") = <<>>) =>
        LET s == Unwrap(built)
        IN  /\ s.is_default = TRUE
            /\ s.caption = CaptionSet
            /\ s.images = ImagesAdded
            /\ s.videos = VideosAdded
            /\ (calls = <<>> => s = ScreenshotDefault)
            /\ DecodeScreenshot(DefaultTypedElementOfCalls) = Ok(s)

\* C9 witness: a Screenshot built by hand from two setter calls, one of them
\* image, none of them set_default.
BuiltByHandWithoutSetDefaultReached ==
    /\ sdoc.kind = "none" /\ built # None
    /\ CallsOf("set_default") = <<>>
    /\ Len(calls) = 2 /\ ImagesAdded # <<>>

\* C10: encoding a Screenshot (with its images and videos) and decoding the
\* result yields a value equal to the original, is_default included.
EncodeDecodeRoundTrip ==
    redecoded # None => Unwrap(redecoded) = Ok(Unwrap(built))

-----------------------------------------------------------------------------
(* Properties of the localized-value merge (SpecMerge) *)

MergeDone == merged # None /\ elems.next = Len(elems.input) + 1

\* The first element is untagged and the rest carry pairwise distinct tags.
UntaggedThenDistinctTags(es) ==
    /\ es # <<>>
    /\ es[1].lang = None
    /\ \A i \in 2..Len(es) : es[i].lang # None
    /\ \A i, j \in 2..Len(es) : i # j => es[i].lang # es[j].lang

\* The list with its tagged elements rearranged by the permutation p of 2..Len.
Reordered(es, p) == [i \in 1..Len(es) |-> IF i = 1 THEN es[1] ELSE es[p[i]]]

\* C5: when the first of the same-named elements is untagged and the rest
\* carry pairwise distinct locale tags, the merged value has the untagged
\* element's content as default and, for each tag, that element's content as
\* override and no other override; every ordering of the tagged elements
\* merges to the same value, and it equals with_default(default) followed by
\* and_locale(tag, value) for each tagged element.
MergeIsDeterministic ==
    (MergeDone /\ UntaggedThenDistinctTags(elems.input)) =>
        LET es == elems.input
            m == Unwrap(merged)
        IN  /\ m.default = Some(es[1].text)
            /\ DOMAIN m.locales = {Unwrap(es[i].lang) : i \in 2..Len(es)}
            /\ \A i \in 2..Len(es) : m.locales[Unwrap(es[i].lang)] = es[i].text
            /\ \A p \in Permutations(2..Len(es)) :
                  MergeAll(EmptyMerge, Reordered(es, p)) = m
            /\ MergeFinish(m) = Ok(AndLocales(with_default(es[1].text), Tail(es)))

\* C5 witness: an untagged element followed by two elements with different
\* tags has been merged.
MergedTwoLocalesReached ==
    /\ MergeDone /\ UntaggedThenDistinctTags(elems.input)
    /\ Len(elems.input) = 3

-----------------------------------------------------------------------------
(* Properties of the open enumerations (SpecEnum) *)

Unrecognized == \A p \in FixedVariants(field) : p[1] # token

\* C6: for every open-enum field, a token that matches no fixed variant
\* decodes to the catch-all variant carrying the token verbatim, and encoding
\* that value writes the original token exactly.
UnknownTokenRoundTrips ==
    /\ (variant # None /\ Unrecognized) =>
          Unwrap(variant) = [variant |-> "Unknown", token |-> token]
    /\ (written # None /\ Unrecognized) => written = Some(token)

\* C6 witness: the category token "network", which is no fixed variant, was
\* decoded and written back.
UnknownCategoryWrittenReached ==
    /\ written # None /\ field = "category" /\ token = "network" /\ Unrecognized

====
